---- MODULE Spec2Model ----
(***************************************************************************)
(* kratix-foundry.  The FoundryLicense reconciliation pass (Spec):          *)
(*   promises/foundry-license/configure-pipeline/scripts/main.py            *)
(*   promises/foundry-license/configure-pipeline/scripts/generate_route.py  *)
(*   promises/foundry-license/configure-pipeline/scripts/validate_license.py*)
(*   lib/foundry_lib/foundry_api.py, manifest_templates.py                  *)
(* One behaviour is one pass: main() reads the License, validates it,       *)
(* generate_routes() arbitrates the active holder, lists the Instances and  *)
(* writes one route per bound Instance, then main() probes the active       *)
(* instance and writes the status.                                          *)
(*                                                                          *)
(* Strings built with f-strings are sequences of their pieces, so that      *)
(* "the warning contains X" is a test on the pieces.  An absent or empty    *)
(* optional value (None, "", missing key) is Absent or "" as noted.         *)
(*                                                                          *)
(* The other programs have a specification each, over variables of their    *)
(* own: the bot's wait_for_resource_condition (SpecWait, SpecWaitLive), its *)
(* activate / deactivate handlers (SpecUpdate), the secret logic of the     *)
(* FoundryInstance pass (SpecSecret), the pending-notification flag of the  *)
(* FoundryPassword pass and the notifiers (SpecPassword), and the bot's     *)
(* cluster client with its License cache, /vtt-delete and the instance      *)
(* delete pipeline (SpecClient).  SpecConverge runs the License pass again  *)
(* and again on the status of the previous pass.  In a behaviour of one     *)
(* specification the other programs do not run.                             *)
(***************************************************************************)
EXTENDS Integers, Sequences, FiniteSets, TLC

VARIABLES
    pc,                    \* position of the pass
    resource,              \* the License object read by Pipeline.resource()
    admin_key,             \* main.py admin_key ("" = None or empty file)
    active_instance_name,  \* generate_routes local
    warning,               \* generate_routes local (<<>> = None)
    stats,                 \* generate_routes local: result of check_players
    arbitrated,            \* active_instance_name as left by the switch logic (line 68)
    items,                 \* instances.get("items", []) of the listing
    idx,                   \* position of the for loop in items
    registered_instances,  \* generate_routes local
    outputs,               \* pipeline.write_output calls, in order
    probe_calls,           \* check_players calls of the pass, in order
    return_status,         \* the dict returned by generate_routes
    status_file,           \* what pipeline.write_status wrote
    exit_code,             \* process exit status of main.py
    failure,               \* what made the pass fail ("" = nothing)
    \* discord-bot/tasks.py wait_for_resource_condition
    w_pc,                  \* position of the wait
    now,                   \* time.time(), in seconds
    start_time,            \* local start_time
    timeout_seconds,       \* parameter
    interval_seconds,      \* parameter
    on_progress,           \* parameter: TRUE when a callback was passed
    check_fn,              \* parameter: which predicate was passed
    target,                \* the instance name the predicate closes over
    polled,                \* local resource: what the last get_fn() returned
    polls,                 \* number of get_fn() calls of this wait
    poll_at,               \* time.time() read by the loop test before the last poll
    sleeps,                \* number of asyncio.sleep calls of this wait
    sleep_request,         \* argument of the last asyncio.sleep call
    progress_calls,        \* number of on_progress calls of this wait
    w_result,              \* what the wait returned
    \* discord-bot/cogs/update.py _handle_activate / _handle_deactivate
    upd_pc,                \* position of the handler
    upd_action,            \* "activate" or "deactivate"
    upd_instance,          \* parameter instance
    upd_result,            \* local result of k8s.activate_instance / deactivate_instance
    upd_outcome,           \* title of the final message shown to the user
    \* promises/foundry-instance: generate_manifests.py and main.py, per pass
    sec_pc,                \* position of each pass
    secret_store,          \* the adminPassword stored under the secret name
    regenerate,            \* spec.regeneratePassword of each pass's Instance
    is_active,             \* main.py is_active of each pass
    store_at_read,         \* what the store held when the pass read it
    existing_pw,           \* generate_manifests local
    admin_password,        \* generate_manifests local
    status_updates,        \* generate_manifests local: the keys set in the dict
    api_writes,            \* create/patch calls of each pass, in order
    sec_exit,              \* process exit status of each pass (-1 = running)
    inst_admin_key,        \* main.py admin_key of each pass
    inst_status_file,      \* keys of the status.yaml of each pass
    spec_regenerate,       \* the stored Instance's spec.regeneratePassword
    reset_requests,        \* reset commands issued
    \* the pending-notification flag: password pipeline, vtt_create, notifier
    pwd_pc,                \* position of the FoundryPassword pass
    pwd_passes,            \* number of FoundryPassword passes started
    existing_status,       \* password main.py local: status read by the pass
    pwd_status,            \* status of the FoundryPassword in the store
    cr_pc,                 \* position of the /vtt-create handler
    ready_password_res,    \* create.py local: what the wait returned
    password_status_msg,   \* create.py local: fixed text of the message line
    secret_synced,         \* the secret of the ExternalSecret exists
    dms,                   \* password DMs sent, in order
    inst_pending,          \* Instance status.passwordPendingNotification
    task_error,            \* exception caught by tasks.py line 219 ("" = none)
    cr_handlers,           \* /vtt-create handlers started on the FoundryPassword
    \* the bot's cluster client, the License in the store, the delete pipeline
    st_holder,             \* the stored License's spec.activeInstanceName
    st_scheduled,          \* Instances carrying the scheduled-delete-at annotation
    lic_cache,             \* cache.py licenses_cache entry of the License
    cl_clock,              \* time.time() of the bot, in seconds
    bot_pc,                \* position of the bot command in progress
    bot_cmd,               \* "vtt_update" or "vtt_delete"
    bot_fn,                \* "activate" or "deactivate"
    bot_instance,          \* the instance the command names
    bot_license,           \* activeInstanceName of license_obj in the call
    fresh_license,         \* activeInstanceName of lic, delete.py line 100
    holder_at_call,        \* st_holder when the call read the License
    bot_result,            \* dict returned by activate/deactivate_instance
    annotate_result,       \* delete.py line 125: "" not called, "ok", "failed"
    last_patch,            \* the last patch of activeInstanceName the store applied
    del_pc,                \* position of the instance delete pipeline
    del_instance,          \* the Instance the delete pipeline runs for
    del_read               \* delete.py line 43: current_active

licenseVars == <<pc, resource, admin_key, active_instance_name, warning, stats,
                 arbitrated, items, idx, registered_instances, outputs,
                 probe_calls, return_status, status_file, exit_code, failure>>

waitVars == <<w_pc, now, start_time, timeout_seconds, interval_seconds,
              on_progress, check_fn, target, polled, polls, poll_at, sleeps,
              sleep_request, progress_calls, w_result>>

updateVars == <<upd_pc, upd_action, upd_instance, upd_result, upd_outcome>>

instanceVars == <<sec_pc, secret_store, regenerate, is_active, store_at_read,
                  existing_pw, admin_password, status_updates, api_writes,
                  sec_exit, inst_admin_key, inst_status_file, spec_regenerate,
                  reset_requests>>

passwordVars == <<pwd_pc, pwd_passes, existing_status, pwd_status, cr_pc,
                  ready_password_res, password_status_msg, secret_synced, dms,
                  inst_pending, task_error, cr_handlers>>

clientVars == <<st_holder, st_scheduled, lic_cache, cl_clock, bot_pc, bot_cmd,
                bot_fn, bot_instance, bot_license, fresh_license,
                holder_at_call, bot_result, annotate_result, last_patch,
                del_pc, del_instance, del_read>>

vars == <<licenseVars, waitVars, updateVars, instanceVars, passwordVars,
          clientVars>>

\* what a step of one program leaves alone: the state of the other programs
outsideLicense == <<waitVars, updateVars, instanceVars, passwordVars, clientVars>>
outsideBot == <<licenseVars, instanceVars, passwordVars, clientVars>>
outsideInstance == <<licenseVars, waitVars, updateVars, passwordVars, clientVars>>
outsidePassword == <<licenseVars, waitVars, updateVars, instanceVars, clientVars>>
outsideClient == <<licenseVars, waitVars, updateVars, instanceVars, passwordVars>>

----------------------------------------------------------------------------
(* Bounds of the model *)

\* longest Instance listing
MaxInstances == 2
\* largest connected-player count a probe reports
MaxPlayers == 2

----------------------------------------------------------------------------
(* Values *)

InstanceNames == {"A", "B", "C"}
LicenseName == "test-license"
OtherLicense == "other-license"
LicenseNs == "default"
Absent == "<absent>"
NoWarning == <<>>
NotSet == [unset |-> TRUE]

\* the inputs of one pass
Resources ==
    [ activeInstanceName : InstanceNames \cup {""},   \* spec.activeInstanceName
      switchMode         : {"block", "force"},        \* spec.switchMode
      baseDomain         : {Absent, "example.com"},   \* spec.gateway.baseDomain
      publicIP           : {Absent, "1.2.3.4"},       \* spec.gateway.publicIP
      secretRefOK        : BOOLEAN,                   \* spec.licenseSecretRef has name and key
      activeInstance     : InstanceNames \cup {""} ]  \* status.activeInstance

AdminKeys == {"", "test-key"}

\* one item of the Instance listing
InstanceRecords ==
    [ name : InstanceNames, licenseRef : {LicenseName, OtherLicense},
      scheduledDelete : BOOLEAN ]

\* listings of the store: names are unique within a namespace
Listings ==
    UNION { { s \in [1..n -> InstanceRecords] :
                \A i, j \in 1..n : i < j => s[i].name # s[j].name } :
            n \in 0..MaxInstances }

\* what the HTTP GET of /api/status can end in
ProbeResponses ==
    [kind : {"ok"}, users : 0..MaxPlayers]
      \cup [kind : {"http_error", "transport", "timeout"}, users : {0}]

NoStats == [connectedPlayers |-> 0, error |-> "", raised |-> FALSE]

Contains(seq, s) == \E i \in DOMAIN seq : seq[i] = s

----------------------------------------------------------------------------
(* foundry_api.check_players *)

\* a timeout is not caught and leaves check_players as an exception
CheckPlayers_TimeoutEscapes(resp) ==
    IF resp.kind = "ok"
    THEN [connectedPlayers |-> resp.users, error |-> "", raised |-> FALSE]
    ELSE [connectedPlayers |-> -1, error |-> "connection failed",
          raised |-> resp.kind = "timeout"]

\* requests.get + raise_for_status + json; every Exception is caught
CheckPlayers(resp) ==
    IF resp.kind = "ok"
    THEN [connectedPlayers |-> resp.users, error |-> "", raised |-> FALSE]
    ELSE [connectedPlayers |-> -1, error |-> "connection failed", raised |-> FALSE]

\* the hostname generate_routes and main probe
ServiceHost(name) == <<"foundry-", name, ".", LicenseNs, ".svc.cluster.local">>

----------------------------------------------------------------------------
(* generate_routes: switch logic, lines 39-68 *)

BaseDomain(r) == IF r.baseDomain = Absent THEN "k8s.orb.local" ELSE r.baseDomain

SwitchRequested_DesiredUnchecked(current, desired) ==
    current # "" /\ current # desired

\* line 45
SwitchRequested(current, desired) ==
    current # "" /\ desired # "" /\ current # desired

NeedsOccupancyCheck_Always(switch_mode) == TRUE

\* line 46
NeedsOccupancyCheck(switch_mode) == switch_mode = "block"

ErrorWarning(desired, current, error) ==
    <<"Switch to '", desired, "' blocked: Unable to verify player count on '",
      current, "' (", error, ")">>

PlayersWarning(desired, current, players) ==
    <<"Switch to '", desired, "' blocked: ", ToString(players),
      " players connected to '", current, "'">>

NoKeyWarning(desired) ==
    <<"Switch to '", desired,
      "' blocked: No admin credentials available to check player count">>

DeletionWarning(name) ==
    <<"Instance '", name, "' is scheduled for deletion and cannot be active">>

BlockDecision_ZeroBlocks(st, desired, current) ==
    IF st.error # ""
    THEN [active |-> current, warning |-> ErrorWarning(desired, current, st.error)]
    ELSE IF st.connectedPlayers >= 0
    THEN [active |-> current,
          warning |-> PlayersWarning(desired, current, st.connectedPlayers)]
    ELSE [active |-> desired, warning |-> NoWarning]

BlockDecision_ErrorIgnored(st, desired, current) ==
    IF st.connectedPlayers > 0
    THEN [active |-> current,
          warning |-> PlayersWarning(desired, current, st.connectedPlayers)]
    ELSE [active |-> desired, warning |-> NoWarning]

BlockDecision_NoCountInWarning(st, desired, current) ==
    IF st.error # ""
    THEN [active |-> current, warning |-> ErrorWarning(desired, current, st.error)]
    ELSE IF st.connectedPlayers > 0
    THEN [active |-> current,
          warning |-> <<"Switch to '", desired, "' blocked: players connected">>]
    ELSE [active |-> desired, warning |-> NoWarning]

\* lines 52-64
BlockDecision(st, desired, current) ==
    IF st.error # ""
    THEN [active |-> current, warning |-> ErrorWarning(desired, current, st.error)]
    ELSE IF st.connectedPlayers > 0
    THEN [active |-> current,
          warning |-> PlayersWarning(desired, current, st.connectedPlayers)]
    ELSE [active |-> desired, warning |-> NoWarning]

\* does the switch logic call check_players (lines 45-48)
ProbesCurrent(r, key) ==
    /\ SwitchRequested(r.activeInstance, r.activeInstanceName)
    /\ NeedsOccupancyCheck(r.switchMode)
    /\ key # ""

----------------------------------------------------------------------------
(* generate_routes: the loop body, lines 83-137 *)

BoundToLicense_Unfiltered(instance) == TRUE

\* lines 84-86
BoundToLicense(instance) == instance.licenseRef = LicenseName

\* lines 94-101
DeletionOverride(name, scheduled, active, warn, current) ==
    IF scheduled /\ name = active
    THEN [active  |-> IF current # name THEN current ELSE "",
          warning |-> DeletionWarning(name)]
    ELSE [active |-> active, warning |-> warn]

RouteState_Inverted(name, active) ==
    IF name # active THEN "active" ELSE "standby"

\* lines 108-118
RouteState(name, active) ==
    IF name = active THEN "active" ELSE "standby"

\* lines 109-116: backend_service and backend_ns (Absent = None)
Backend(name, state) ==
    IF state = "active"
    THEN [name |-> <<"foundry-", name>>, namespace |-> Absent, port |-> 80]
    ELSE [name |-> <<"foundry-standby-page">>, namespace |-> "foundry-vtt",
          port |-> 80]

\* line 106
Hostname(name, base_domain) == <<name, ".", base_domain>>

\* manifest_templates.httproute_template plus the license label (lines 123-133)
HttpRoute(name, hostname, backend) ==
    [ kind      |-> "HTTPRoute",
      name      |-> <<"foundry-id-", name>>,
      namespace |-> LicenseNs,
      instance  |-> name,
      license   |-> LicenseName,
      hostnames |-> <<hostname>>,
      backendRefs |-> <<backend>> ]

RouteFile(name) == <<"route-", name, ".yaml">>

----------------------------------------------------------------------------
(* The programs that are not running in a behaviour of one specification *)

\* get_fn() returned None
NoneResource == [kind |-> "none", activeInstance |-> Absent]
\* the wait has not returned
NotReturned == [kind |-> "unset", activeInstance |-> Absent]
\* activate_instance / deactivate_instance has not been called
NoResult == [success |-> FALSE, message |-> "", license_name |-> Absent]

WaitIdle ==
    /\ w_pc = "idle"
    /\ now = 0
    /\ start_time = 0
    /\ timeout_seconds = 0
    /\ interval_seconds = 0
    /\ on_progress = FALSE
    /\ check_fn = ""
    /\ target = ""
    /\ polled = NoneResource
    /\ polls = 0
    /\ poll_at = 0
    /\ sleeps = 0
    /\ sleep_request = 0
    /\ progress_calls = 0
    /\ w_result = NotReturned

UpdateIdle ==
    /\ upd_pc = "idle"
    /\ upd_action = ""
    /\ upd_instance = ""
    /\ upd_result = NoResult
    /\ upd_outcome = ""

InstanceIdle ==
    /\ sec_pc = <<>>
    /\ secret_store = Absent
    /\ regenerate = <<>>
    /\ is_active = <<>>
    /\ store_at_read = <<>>
    /\ existing_pw = <<>>
    /\ admin_password = <<>>
    /\ status_updates = <<>>
    /\ api_writes = <<>>
    /\ sec_exit = <<>>
    /\ inst_admin_key = <<>>
    /\ inst_status_file = <<>>
    /\ spec_regenerate = FALSE
    /\ reset_requests = 0

PasswordIdle ==
    /\ pwd_pc = "off"
    /\ pwd_passes = 0
    /\ existing_status = <<>>
    /\ pwd_status = <<>>
    /\ cr_pc = "off"
    /\ ready_password_res = <<>>
    /\ password_status_msg = ""
    /\ secret_synced = FALSE
    /\ dms = <<>>
    /\ inst_pending = Absent
    /\ task_error = ""
    /\ cr_handlers = 0

ClientIdle ==
    /\ st_holder = ""
    /\ st_scheduled = {}
    /\ lic_cache = [present |-> FALSE, data |-> "", timestamp |-> 0]
    /\ cl_clock = 0
    /\ bot_pc = "off"
    /\ bot_cmd = ""
    /\ bot_fn = ""
    /\ bot_instance = ""
    /\ bot_license = ""
    /\ fresh_license = ""
    /\ holder_at_call = ""
    /\ bot_result = [success |-> FALSE, message |-> "", license_name |-> Absent]
    /\ annotate_result = ""
    /\ last_patch = [by |-> "", behalf |-> "", value |-> "", replaced |-> ""]
    /\ del_pc = "off"
    /\ del_instance = ""
    /\ del_read = ""

----------------------------------------------------------------------------
(* The pass *)

Init ==
    /\ pc = "validate"
    /\ resource \in Resources
    /\ admin_key \in AdminKeys
    /\ active_instance_name = ""
    /\ warning = NoWarning
    /\ stats = NoStats
    /\ arbitrated = ""
    /\ items = <<>>
    /\ idx = 1
    /\ registered_instances = <<>>
    /\ outputs = <<>>
    /\ probe_calls = <<>>
    /\ return_status = NotSet
    /\ status_file = NotSet
    /\ exit_code = -1
    /\ failure = ""
    /\ WaitIdle
    /\ UpdateIdle
    /\ InstanceIdle
    /\ PasswordIdle
    /\ ClientIdle

\* main.py line 18: validate_license exits 1 on a missing secret reference
ValidateLicense ==
    /\ pc = "validate"
    /\ UNCHANGED outsideLicense
    /\ IF resource.secretRefOK
       THEN /\ pc' = "switch"
            /\ UNCHANGED <<exit_code, failure>>
       ELSE /\ pc' = "exited"
            /\ exit_code' = 1
            /\ failure' = "validation"
    /\ UNCHANGED <<resource, admin_key, active_instance_name, warning, stats,
                   arbitrated, items, idx, registered_instances, outputs,
                   probe_calls, return_status, status_file>>

\* a missing admin key lets the switch through
SwitchLogic_NoKeyAllows(r, key, resp) ==
    LET desired == r.activeInstanceName
        current == r.activeInstance
    IN  IF SwitchRequested(current, desired) /\ NeedsOccupancyCheck(r.switchMode)
           /\ key # ""
        THEN LET st == CheckPlayers(resp)
                 d  == BlockDecision(st, desired, current)
             IN  [active |-> d.active, warning |-> d.warning, stats |-> st,
                  calls |-> <<[site |-> "generate_routes",
                               host |-> ServiceHost(current)]>>]
        ELSE [active |-> desired, warning |-> NoWarning, stats |-> NoStats,
              calls |-> <<>>]

\* a failed probe is tried a second time
SwitchLogic_RetryOnError(r, key, resp) ==
    LET desired == r.activeInstanceName
        current == r.activeInstance
        call    == [site |-> "generate_routes", host |-> ServiceHost(current)]
    IN  IF SwitchRequested(current, desired) /\ NeedsOccupancyCheck(r.switchMode)
        THEN IF key # ""
             THEN LET st == CheckPlayers(resp)
                      d  == BlockDecision(st, desired, current)
                  IN  [active |-> d.active, warning |-> d.warning, stats |-> st,
                       calls |-> IF st.error # "" THEN <<call, call>>
                                 ELSE <<call>>]
             ELSE [active |-> current, warning |-> NoKeyWarning(desired),
                   stats |-> NoStats, calls |-> <<>>]
        ELSE [active |-> desired, warning |-> NoWarning, stats |-> NoStats,
              calls |-> <<>>]

\* what lines 39-68 leave in the locals, given the probe's response
SwitchLogic(r, key, resp) ==
    LET desired == r.activeInstanceName
        current == r.activeInstance
    IN  IF SwitchRequested(current, desired) /\ NeedsOccupancyCheck(r.switchMode)
        THEN IF key # ""
             THEN LET st == CheckPlayers(resp)
                      d  == BlockDecision(st, desired, current)
                  IN  [active |-> d.active, warning |-> d.warning, stats |-> st,
                       calls |-> <<[site |-> "generate_routes",
                                    host |-> ServiceHost(current)]>>]
             ELSE [active |-> current, warning |-> NoKeyWarning(desired),
                   stats |-> NoStats, calls |-> <<>>]
        ELSE [active |-> desired, warning |-> NoWarning, stats |-> NoStats,
              calls |-> <<>>]

\* generate_routes lines 20-68, with a probe
ArbitrateWithProbe ==
    /\ pc = "switch"
    /\ UNCHANGED outsideLicense
    /\ ProbesCurrent(resource, admin_key)
    /\ \E resp \in ProbeResponses :
         LET s == SwitchLogic(resource, admin_key, resp)
         IN  /\ stats' = s.stats
             /\ probe_calls' = probe_calls \o s.calls
             /\ IF s.stats.raised
                THEN \* the exception reaches main's except clause
                     /\ pc' = "exited"
                     /\ exit_code' = 1
                     /\ failure' = "probe"
                     /\ UNCHANGED <<active_instance_name, warning, arbitrated>>
                ELSE /\ pc' = "list"
                     /\ active_instance_name' = s.active
                     /\ warning' = s.warning
                     /\ arbitrated' = s.active
                     /\ UNCHANGED <<exit_code, failure>>
    /\ UNCHANGED <<resource, admin_key, items, idx, registered_instances,
                   outputs, return_status, status_file>>

\* generate_routes lines 20-68, without a probe
ArbitrateNoProbe ==
    /\ pc = "switch"
    /\ UNCHANGED outsideLicense
    /\ ~ProbesCurrent(resource, admin_key)
    /\ LET s == SwitchLogic(resource, admin_key, [kind |-> "ok", users |-> 0])
       IN  /\ active_instance_name' = s.active
           /\ warning' = s.warning
           /\ arbitrated' = s.active
           /\ stats' = s.stats
           /\ probe_calls' = probe_calls \o s.calls
    /\ pc' = "list"
    /\ UNCHANGED <<resource, admin_key, items, idx, registered_instances,
                   outputs, return_status, status_file, exit_code, failure>>

\* lines 73-81: the listing succeeds
ListInstances ==
    /\ pc = "list"
    /\ UNCHANGED outsideLicense
    /\ \E l \in Listings : items' = l
    /\ idx' = 1
    /\ registered_instances' = <<>>
    /\ pc' = "loop"
    /\ UNCHANGED <<resource, admin_key, active_instance_name, warning, stats,
                   arbitrated, outputs, probe_calls, return_status, status_file,
                   exit_code, failure>>

\* lines 73-78 raise; main.py lines 46-48 print and exit 1
ListInstancesFails ==
    /\ pc = "list"
    /\ UNCHANGED outsideLicense
    /\ pc' = "exited"
    /\ exit_code' = 1
    /\ failure' = "list"
    /\ UNCHANGED <<resource, admin_key, active_instance_name, warning, stats,
                   arbitrated, items, idx, registered_instances, outputs,
                   probe_calls, return_status, status_file>>

\* one iteration of the for loop, lines 83-137
ProcessInstance ==
    /\ pc = "loop"
    /\ UNCHANGED outsideLicense
    /\ idx <= Len(items)
    /\ LET instance == items[idx]
           name     == instance.name
       IN  IF ~BoundToLicense(instance)
           THEN UNCHANGED <<active_instance_name, warning, registered_instances,
                            outputs>>
           ELSE LET o == DeletionOverride(name, instance.scheduledDelete,
                                          active_instance_name, warning,
                                          resource.activeInstance)
                    state == RouteState(name, o.active)
                    route == HttpRoute(name, Hostname(name, BaseDomain(resource)),
                                       Backend(name, state))
                IN  /\ active_instance_name' = o.active
                    /\ warning' = o.warning
                    /\ registered_instances' =
                         Append(registered_instances,
                                [name |-> name, state |-> state])
                    /\ outputs' =
                         Append(outputs,
                                [filename |-> RouteFile(name), content |-> route])
    /\ idx' = idx + 1
    /\ UNCHANGED <<pc, resource, admin_key, stats, arbitrated, items,
                   probe_calls, return_status, status_file, exit_code, failure>>

\* lines 142-149
ReturnStatus ==
    /\ pc = "loop"
    /\ UNCHANGED outsideLicense
    /\ idx > Len(items)
    /\ return_status' =
         IF warning # NoWarning
         THEN [activeInstance |-> active_instance_name,
               registeredInstances |-> registered_instances,
               warning |-> warning]
         ELSE [activeInstance |-> active_instance_name,
               registeredInstances |-> registered_instances]
    /\ pc' = "returned"
    /\ UNCHANGED <<resource, admin_key, active_instance_name, warning, stats,
                   arbitrated, items, idx, registered_instances, outputs,
                   probe_calls, status_file, exit_code, failure>>

\* main.py lines 33-42: probe the active instance, write the status
MainWriteStatus ==
    /\ pc = "returned"
    /\ UNCHANGED outsideLicense
    /\ IF return_status.activeInstance # "" /\ admin_key # ""
       THEN \E resp \in ProbeResponses :
              LET st == CheckPlayers(resp)
              IN  /\ probe_calls' =
                       Append(probe_calls,
                              [site |-> "main",
                               host |-> ServiceHost(return_status.activeInstance)])
                  /\ IF st.raised
                     THEN /\ pc' = "exited"
                          /\ exit_code' = 1
                          /\ failure' = "probe"
                          /\ UNCHANGED status_file
                     ELSE /\ pc' = "done"
                          /\ exit_code' = 0
                          /\ status_file' =
                               [status |-> return_status,
                                activeInstanceStats |->
                                  [connectedPlayers |-> st.connectedPlayers,
                                   error |-> st.error]]
                          /\ UNCHANGED failure
       ELSE /\ pc' = "done"
            /\ exit_code' = 0
            /\ status_file' = [status |-> return_status]
            /\ UNCHANGED <<probe_calls, failure>>
    /\ UNCHANGED <<resource, admin_key, active_instance_name, warning, stats,
                   arbitrated, items, idx, registered_instances, outputs,
                   return_status>>

Next ==
    \/ ValidateLicense
    \/ ArbitrateWithProbe
    \/ ArbitrateNoProbe
    \/ ListInstances
    \/ ListInstancesFails
    \/ ProcessInstance
    \/ ReturnStatus
    \/ MainWriteStatus

Spec == Init /\ [][Next]_vars

\* no License pass is running
LicenseIdle ==
    /\ pc = "idle"
    /\ resource = NotSet
    /\ admin_key = ""
    /\ active_instance_name = ""
    /\ warning = NoWarning
    /\ stats = NoStats
    /\ arbitrated = ""
    /\ items = <<>>
    /\ idx = 1
    /\ registered_instances = <<>>
    /\ outputs = <<>>
    /\ probe_calls = <<>>
    /\ return_status = NotSet
    /\ status_file = NotSet
    /\ exit_code = -1
    /\ failure = ""

----------------------------------------------------------------------------
(* Vocabulary of the properties *)

Desired == resource.activeInstanceName
Current == resource.activeInstance
Returned == pc \in {"returned", "done"}

\* the check_players calls made inside generate_routes
GenProbeCalls == SelectSeq(probe_calls, LAMBDA c : c.site = "generate_routes")

\* a switch from a non-empty current holder to another non-empty holder
SwitchAsked == Current # "" /\ Desired # "" /\ Current # Desired

\* the switch logic probed the current holder under switchMode=block
BlockProbed ==
    /\ resource.switchMode = "block"
    /\ SwitchAsked
    /\ Len(GenProbeCalls) = 1
    /\ GenProbeCalls[1].host = <<"foundry-", Current, ".", LicenseNs, ".svc.cluster.local">>

\* n is listed as an Instance of this License
IsBound(n) ==
    \E i \in DOMAIN items : items[i].name = n /\ items[i].licenseRef = LicenseName

\* n is listed with the scheduled-delete-at annotation
Annotated(n) ==
    \E i \in DOMAIN items : items[i].name = n /\ items[i].scheduledDelete

\* n is listed as an Instance of this License with the annotation
PendingDeletion(n) ==
    \E i \in DOMAIN items :
        /\ items[i].name = n
        /\ items[i].licenseRef = LicenseName
        /\ items[i].scheduledDelete

RegisteredAs(n, st) ==
    \E i \in DOMAIN return_status.registeredInstances :
        return_status.registeredInstances[i] = [name |-> n, state |-> st]

HasWarning == "warning" \in DOMAIN return_status

\* the written routes of instance n
RoutesOf(n) == {i \in DOMAIN outputs : outputs[i].content.instance = n}

\* route i points at the instance's own service
ActiveRoute(i) ==
    outputs[i].content.backendRefs[1].name
        = <<"foundry-", outputs[i].content.instance>>

\* route i points at the shared standby page
StandbyRoute(i) ==
    outputs[i].content.backendRefs[1].name = <<"foundry-standby-page">>

MentionsDeletion(w) ==
    Contains(w, "' is scheduled for deletion and cannot be active")

----------------------------------------------------------------------------
(* C1 *)

\* C1: in every state of a pass, at most one written route has the
\* instance's own service as backend and at most one registeredInstances
\* entry has state 'active'; the same holds of the returned status.
C1_AtMostOneActive ==
    /\ Cardinality({i \in DOMAIN outputs : ActiveRoute(i)}) <= 1
    /\ Cardinality({i \in DOMAIN registered_instances :
                       registered_instances[i].state = "active"}) <= 1
    /\ Returned =>
         Cardinality({i \in DOMAIN return_status.registeredInstances :
                        return_status.registeredInstances[i].state = "active"}) <= 1

\* a finished pass over two bound Instances in which the deletion override
\* moved the holder and one of the two routes is active
C1_Witness ==
    /\ pc = "done"
    /\ Len(return_status.registeredInstances) = 2
    /\ arbitrated # return_status.activeInstance
    /\ \E i \in DOMAIN outputs : ActiveRoute(i)
    /\ \E i \in DOMAIN outputs : StandbyRoute(i)

----------------------------------------------------------------------------
(* C2 *)

C2_Pre ==
    /\ Returned
    /\ BlockProbed
    /\ stats.error = ""
    /\ stats.connectedPlayers > 0

C2_Denied ==
    /\ return_status.activeInstance = Current
    /\ HasWarning
    /\ Contains(return_status.warning, ToString(stats.connectedPlayers))
    /\ Contains(return_status.warning, Current)

\* C2 as stated: block mode, switch A -> B, the probe of A reports n > 0
\* without error => activeInstance = A, the warning contains n and A,
\* A is registered 'active' and B 'standby' (each when it is a listed
\* Instance of the License).
C2_BlockAndDeny_AsStated ==
    C2_Pre =>
        /\ C2_Denied
        /\ IsBound(Current) => RegisteredAs(Current, "active")
        /\ IsBound(Desired) => RegisteredAs(Desired, "standby")

\* C2, amended: the same when A is not a pending-deletion Instance of the
\* License; when A is pending deletion the pass returns an empty
\* activeInstance with the scheduled-for-deletion warning and A is
\* registered 'standby'.
C2_BlockAndDeny ==
    C2_Pre =>
        /\ ~PendingDeletion(Current) =>
             /\ C2_Denied
             /\ IsBound(Current) => RegisteredAs(Current, "active")
        /\ PendingDeletion(Current) =>
             /\ return_status.activeInstance = ""
             /\ HasWarning
             /\ return_status.warning = DeletionWarning(Current)
             /\ RegisteredAs(Current, "standby")
        /\ IsBound(Desired) => RegisteredAs(Desired, "standby")

\* a denied switch with both holders registered
C2_Witness ==
    /\ C2_Pre
    /\ stats.connectedPlayers = MaxPlayers
    /\ RegisteredAs(Current, "active")
    /\ RegisteredAs(Desired, "standby")

----------------------------------------------------------------------------
(* C3 *)

C3_Pre ==
    /\ Returned
    /\ BlockProbed
    /\ stats.error = ""
    /\ stats.connectedPlayers = 0
    /\ ~Annotated(Current)
    /\ ~Annotated(Desired)

\* C3: block mode, switch A -> B, neither pending deletion, the probe of A
\* reports 0 without error => activeInstance = B, the status has no
\* 'warning' key, B is registered 'active' and A 'standby' (each when it is
\* a listed Instance of the License).
C3_BlockAndAllow ==
    C3_Pre =>
        /\ return_status.activeInstance = Desired
        /\ ~HasWarning
        /\ IsBound(Desired) => RegisteredAs(Desired, "active")
        /\ IsBound(Current) => RegisteredAs(Current, "standby")

\* an allowed switch with both holders registered
C3_Witness ==
    /\ C3_Pre
    /\ RegisteredAs(Desired, "active")
    /\ RegisteredAs(Current, "standby")

----------------------------------------------------------------------------
(* C4 *)

C4_Pre ==
    /\ resource.switchMode = "force"
    /\ SwitchAsked

\* C4: force mode, switch A -> B: generate_routes never calls check_players,
\* and when B is not pending deletion it returns activeInstance = B without
\* a warning.
C4_ForceBypass ==
    C4_Pre =>
        /\ GenProbeCalls = <<>>
        /\ (Returned /\ ~Annotated(Desired)) =>
             /\ return_status.activeInstance = Desired
             /\ ~HasWarning

\* a forced switch with credentials at hand and both holders registered
C4_Witness ==
    /\ C4_Pre
    /\ Returned
    /\ admin_key # ""
    /\ RegisteredAs(Desired, "active")
    /\ RegisteredAs(Current, "standby")

----------------------------------------------------------------------------
(* C5 *)

\* C5: with an empty desired holder the pass makes no probe call at all and
\* returns an empty activeInstance, no warning, every registered instance
\* 'standby'.
C5_DeactivationSucceeds ==
    Desired = "" =>
        /\ probe_calls = <<>>
        /\ Returned =>
             /\ return_status.activeInstance = ""
             /\ ~HasWarning
             /\ \A i \in DOMAIN return_status.registeredInstances :
                    return_status.registeredInstances[i].state = "standby"

\* a deactivation under block mode, with credentials, of a current holder
\* that is listed and pending deletion
C5_Witness ==
    /\ pc = "done"
    /\ Desired = ""
    /\ Current # ""
    /\ resource.switchMode = "block"
    /\ admin_key # ""
    /\ PendingDeletion(Current)
    /\ RegisteredAs(Current, "standby")

----------------------------------------------------------------------------
(* C6 *)

\* C6: when the holder chosen by the switch logic is pending deletion, the
\* returned activeInstance is the current holder if that one is not pending
\* deletion and empty otherwise, and the warning mentions the scheduled
\* deletion, whatever the order of the listing.
C6_DeletionOverride ==
    (Returned /\ PendingDeletion(arbitrated)) =>
        /\ return_status.activeInstance =
             (IF PendingDeletion(Current) THEN "" ELSE Current)
        /\ HasWarning
        /\ MentionsDeletion(return_status.warning)

----------------------------------------------------------------------------
(* C7 *)

\* C7: a listed Instance of the License that is pending deletion has no
\* active route, is not registered 'active', is not the returned
\* activeInstance, and has exactly one route, a standby one.
C7_PendingNeverActive ==
    Returned =>
        \A n \in InstanceNames :
            PendingDeletion(n) =>
                /\ ~RegisteredAs(n, "active")
                /\ return_status.activeInstance # n
                /\ Cardinality(RoutesOf(n)) = 1
                /\ \A i \in RoutesOf(n) : StandbyRoute(i)

----------------------------------------------------------------------------
(* C8 *)

C8_Pre ==
    /\ BlockProbed
    /\ stats.error # ""

\* C8 as stated: block mode, switch A -> B, the probe of A ends in an error
\* => the pass is not failed by it and returns activeInstance = A with a
\* warning naming A and the error.
C8_ProbeFailureDenies_AsStated ==
    C8_Pre =>
        /\ failure # "probe"
        /\ Returned =>
             /\ return_status.activeInstance = Current
             /\ HasWarning
             /\ Contains(return_status.warning, Current)
             /\ Contains(return_status.warning, stats.error)

\* C8, amended: the probe error never fails the pass and never lets B
\* become active; the pass returns activeInstance = A with a warning naming
\* A and the error when A is not a pending-deletion Instance of the License,
\* and an empty activeInstance with the scheduled-for-deletion warning when
\* it is.
C8_ProbeFailureDenies ==
    C8_Pre =>
        /\ failure # "probe"
        /\ pc = "exited" => failure = "list"
        /\ Returned =>
             /\ return_status.activeInstance # Desired
             /\ HasWarning
             /\ ~PendingDeletion(Current) =>
                  /\ return_status.activeInstance = Current
                  /\ Contains(return_status.warning, Current)
                  /\ Contains(return_status.warning, stats.error)
             /\ PendingDeletion(Current) =>
                  /\ return_status.activeInstance = ""
                  /\ return_status.warning = DeletionWarning(Current)

\* a finished pass whose probe failed, with both holders registered
C8_Witness ==
    /\ C8_Pre
    /\ pc = "done"
    /\ exit_code = 0
    /\ RegisteredAs(Current, "active")
    /\ RegisteredAs(Desired, "standby")

----------------------------------------------------------------------------
(* C9 *)

\* C9: in the returned status an Instance is registered 'active' (and its
\* route has its own service as backend) if and only if its name is the
\* returned activeInstance, and 'standby' otherwise.
C9_RouteStateAgrees ==
    Returned =>
        /\ \A i \in DOMAIN return_status.registeredInstances :
             LET e == return_status.registeredInstances[i]
             IN  /\ e.state \in {"active", "standby"}
                 /\ e.state = "active" <=> e.name = return_status.activeInstance
        /\ \A i \in DOMAIN outputs :
             ActiveRoute(i) <=>
                 outputs[i].content.instance = return_status.activeInstance

----------------------------------------------------------------------------
(* C10 *)

\* the Instances of the listing that name this License, in listing order
BoundItems == SelectSeq(items, LAMBDA it : it.licenseRef = LicenseName)

\* C10: a pass writes one route and one registeredInstances entry per
\* Instance bound to the License, in listing order, each route with the
\* hostname <name>.<baseDomain>, and nothing for other Instances.
C10_RegenerationComplete ==
    Returned =>
        /\ Len(outputs) = Len(BoundItems)
        /\ Len(return_status.registeredInstances) = Len(BoundItems)
        /\ \A i \in DOMAIN BoundItems :
             LET n == BoundItems[i].name
                 d == IF resource.baseDomain = Absent
                      THEN "k8s.orb.local" ELSE resource.baseDomain
             IN  /\ return_status.registeredInstances[i].name = n
                 /\ outputs[i].filename = <<"route-", n, ".yaml">>
                 /\ outputs[i].content.instance = n
                 /\ outputs[i].content.hostnames = << <<n, ".", d>> >>

\* a pass over a listing that mixes Instances of this License and of another
C10_Witness ==
    /\ Returned
    /\ Len(items) = MaxInstances
    /\ Len(BoundItems) = MaxInstances - 1
    /\ Len(outputs) = MaxInstances - 1
    /\ resource.baseDomain # Absent

----------------------------------------------------------------------------
(* C11 *)

\* the DNSEndpoint descriptors written for instance n
DnsFilesOf(n) ==
    {i \in DOMAIN outputs : outputs[i].filename = <<"dns-", n, ".yaml">>}

\* C11: when the License declares spec.gateway.publicIP, a pass writes for
\* every bound Instance a descriptor dns-<name>.yaml of kind DNSEndpoint
\* whose targets are that public IP; without a public IP it writes none.
C11_DnsEndpoints ==
    Returned =>
        IF resource.publicIP # Absent
        THEN \A k \in DOMAIN BoundItems :
                \E i \in DnsFilesOf(BoundItems[k].name) :
                    /\ outputs[i].content.kind = "DNSEndpoint"
                    /\ outputs[i].content.targets = <<resource.publicIP>>
        ELSE \A i \in DOMAIN outputs : outputs[i].content.kind # "DNSEndpoint"

----------------------------------------------------------------------------
(* C13 *)

MainProbeCalls == SelectSeq(probe_calls, LAMBDA c : c.site = "main")

\* C13 as stated: check_players is invoked at most once in a pass.
C13_ProbeAtMostOnce_AsStated == Len(probe_calls) <= 1

\* C13, amended: generate_routes invokes check_players at most once (a
\* failed probe is not tried again there), and main.py invokes it at most
\* once more, for the returned activeInstance, after generate_routes has
\* returned; a pass makes at most two calls.
C13_ProbeAtMostOnce ==
    /\ Len(GenProbeCalls) <= 1
    /\ Len(MainProbeCalls) <= 1
    /\ Len(probe_calls) <= 2
    /\ MainProbeCalls # <<>> =>
         /\ pc \in {"done", "exited"}
         /\ MainProbeCalls[1].host
              = <<"foundry-", return_status.activeInstance, ".", LicenseNs,
                  ".svc.cluster.local">>
    /\ (stats.error # "" /\ Returned) =>
         GenProbeCalls = <<[site |-> "generate_routes",
                            host |-> <<"foundry-", Current, ".", LicenseNs,
                                       ".svc.cluster.local">>]>>

\* a finished pass whose switch probe failed and whose main probed again
C13_Witness ==
    /\ pc = "done"
    /\ stats.error # ""
    /\ Len(GenProbeCalls) = 1
    /\ Len(MainProbeCalls) = 1

----------------------------------------------------------------------------
(* discord-bot/tasks.py: wait_for_resource_condition                        *)
(*                                                                          *)
(* Time is time.time() in whole seconds.  A get_fn() call and the wake-up   *)
(* of asyncio.sleep may each take up to MaxLag seconds longer than asked.   *)

\* largest timeout_seconds passed to a wait called on its own
MaxTimeout == 6
\* largest interval_seconds passed to a wait called on its own
MaxInterval == 3
\* longest delay of a get_fn() call or of a wake-up, in seconds
MaxLag == 1

\* get_fn() returned an empty dict
EmptyResource == [kind |-> "empty", activeInstance |-> Absent]

\* what get_fn() can return: None, {} or a License whose status.activeInstance
\* is missing (Absent) or names an instance
FetchValues ==
    {NoneResource, EmptyResource}
        \cup {[kind |-> "license", activeInstance |-> a] : a \in {Absent, "A", "B"}}

\* the predicates passed as check_fn
CheckFns == {"check_active", "check_inactive", "never", "always"}

\* Python truth value of a fetched resource: None and {} are false
Truthy(v) == v.kind = "license"

\* update.py: lic.get('status', {}).get('activeInstance') == instance
check_active(instance, lic) == lic.activeInstance = instance

\* update.py: lic.get('status', {}).get('activeInstance') != instance
check_inactive(instance, lic) == lic.activeInstance # instance

\* check_fn(resource)
CheckFn(fn, instance, v) ==
    CASE fn = "check_active" -> check_active(instance, v)
      [] fn = "check_inactive" -> check_inactive(instance, v)
      [] fn = "always" -> TRUE
      [] OTHER -> FALSE

\* the predicate is not consulted
Satisfies_PresentOnly(fn, instance, v) == Truthy(v)

\* tasks.py line 74: resource and check_fn(resource)
Satisfies(fn, instance, v) == Truthy(v) /\ CheckFn(fn, instance, v)

\* tasks.py line 72: time.time() - start_time < timeout_seconds
WithinTimeout(t, start, timeout) == t - start < timeout

\* the n-th sleep is n times as long
SleepDuration_Backoff(interval, n) == interval * n

\* tasks.py line 80: the argument of the n-th asyncio.sleep call
SleepDuration(interval, n) == interval

\* tasks.py line 71
WaitStart ==
    /\ w_pc = "start"
    /\ start_time' = now
    /\ w_pc' = "test"
    /\ UNCHANGED <<now, timeout_seconds, interval_seconds, on_progress,
                   check_fn, target, polled, polls, poll_at, sleeps,
                   sleep_request, progress_calls, w_result>>
    /\ UNCHANGED <<updateVars, outsideBot>>

\* tasks.py lines 72-80: the loop test passes, one poll, then return or sleep
WaitPoll ==
    /\ w_pc = "test"
    /\ WithinTimeout(now, start_time, timeout_seconds)
    /\ \E v \in FetchValues, d \in 0..MaxLag :
        /\ polled' = v
        /\ polls' = polls + 1
        /\ poll_at' = now
        /\ now' = now + d
        /\ IF Satisfies(check_fn, target, v)
           THEN /\ w_result' = v
                /\ w_pc' = "returned"
                /\ UNCHANGED <<sleeps, sleep_request, progress_calls>>
           ELSE /\ progress_calls' = IF on_progress THEN progress_calls + 1
                                                    ELSE progress_calls
                /\ sleeps' = sleeps + 1
                /\ sleep_request' = SleepDuration(interval_seconds, sleeps + 1)
                /\ w_pc' = "sleep"
                /\ UNCHANGED w_result
    /\ UNCHANGED <<start_time, timeout_seconds, interval_seconds, on_progress,
                   check_fn, target>>
    /\ UNCHANGED <<updateVars, outsideBot>>

\* tasks.py line 80: asyncio.sleep returns, back to the loop test
WaitWake ==
    /\ w_pc = "sleep"
    /\ \E lag \in 0..MaxLag : now' = now + sleep_request + lag
    /\ w_pc' = "test"
    /\ UNCHANGED <<start_time, timeout_seconds, interval_seconds, on_progress,
                   check_fn, target, polled, polls, poll_at, sleeps,
                   sleep_request, progress_calls, w_result>>
    /\ UNCHANGED <<updateVars, outsideBot>>

\* tasks.py lines 72 and 82: the loop test fails, return None
WaitTimeout ==
    /\ w_pc = "test"
    /\ ~WithinTimeout(now, start_time, timeout_seconds)
    /\ w_result' = NoneResource
    /\ w_pc' = "returned"
    /\ UNCHANGED <<now, start_time, timeout_seconds, interval_seconds,
                   on_progress, check_fn, target, polled, polls, poll_at,
                   sleeps, sleep_request, progress_calls>>
    /\ UNCHANGED <<updateVars, outsideBot>>

\* a wait called on its own, with any parameters within the bounds
InitWait ==
    /\ w_pc = "start"
    /\ now = 0
    /\ start_time = 0
    /\ timeout_seconds \in 0..MaxTimeout
    /\ interval_seconds \in 1..MaxInterval
    /\ on_progress \in BOOLEAN
    /\ check_fn \in CheckFns
    /\ target = "A"
    /\ polled = NoneResource
    /\ polls = 0
    /\ poll_at = 0
    /\ sleeps = 0
    /\ sleep_request = 0
    /\ progress_calls = 0
    /\ w_result = NotReturned
    /\ UpdateIdle
    /\ LicenseIdle
    /\ InstanceIdle
    /\ PasswordIdle
    /\ ClientIdle

NextWait ==
    \/ WaitStart
    \/ WaitPoll
    \/ WaitWake
    \/ WaitTimeout

SpecWait == InitWait /\ [][NextWait]_vars

\* the event loop runs the coroutine whenever it can take a step
SpecWaitLive == InitWait /\ [][NextWait]_vars /\ WF_vars(NextWait)

WaitReturned == w_pc = "returned"

\* C14: a wait that has returned a value returned the value of its last poll,
\* that value was present (truthy) and satisfied the predicate, and the poll
\* was made by this wait; a wait that is still running has not seen such a
\* value at its last poll (it returns on the first one, without sleeping
\* again); a wait that returned None did so when the elapsed time had reached
\* the timeout.
C14_WatcherResult ==
    /\ WaitReturned /\ w_result # NoneResource =>
           /\ polls >= 1
           /\ w_result = polled
           /\ Truthy(polled)
           /\ CheckFn(check_fn, target, polled)
           /\ sleeps = polls - 1
    /\ w_pc \in {"test", "sleep"} /\ polls >= 1 =>
           ~(Truthy(polled) /\ CheckFn(check_fn, target, polled))
    /\ WaitReturned /\ w_result = NoneResource =>
           /\ now - start_time >= timeout_seconds
           /\ sleeps = polls
    /\ WaitReturned => w_result # NotReturned

\* C14 happens: a value is returned at the third poll or later
C14_Witness ==
    /\ WaitReturned
    /\ w_result.kind = "license"
    /\ polls >= 3

\* every sleep asked for so far was for interval_seconds, one sleep after each
\* poll that did not return, and every poll followed a loop test made before
\* the timeout had elapsed
C15_FixedIntervalHardTimeout ==
    /\ sleeps >= 1 => sleep_request = interval_seconds
    /\ w_pc \in {"test", "sleep"} => sleeps = polls
    /\ polls >= 1 => poll_at - start_time < timeout_seconds
    /\ WaitReturned => polls - sleeps \in {0, 1}

\* C15: whatever get_fn returns and whatever the predicate answers, the wait
\* returns; until then it sleeps exactly interval_seconds after each poll and
\* polls only while the elapsed time is below the timeout.
C15_WatcherTerminates == []C15_FixedIntervalHardTimeout /\ <>WaitReturned

\* C15 happens: a predicate that never holds, at least three polls, then None
C15_Witness ==
    /\ WaitReturned
    /\ check_fn = "never"
    /\ w_result = NoneResource
    /\ polls >= 3
    /\ sleeps = polls

----------------------------------------------------------------------------
(* discord-bot/cogs/update.py: _handle_activate and _handle_deactivate,     *)
(* with discord-bot/k8s_client.py activate_instance / deactivate_instance   *)
(*                                                                          *)
(* A message is named by the fixed text of its title.                       *)

\* update.py lines 105 and 168: timeout_seconds=60
SwitchTimeout == 60
\* update.py lines 106 and 169: interval_seconds=5
SwitchInterval == 5

\* what the cluster answers to the calls of one handler run: whether the
\* client is connected, the Instance (missing, found, or found with the
\* scheduled-delete annotation), its spec.licenseRef.name, whether the License
\* is found, the License's spec.activeInstanceName, and what the patch does
ClusterViews ==
    [connected : BOOLEAN,
     instance : {"missing", "found", "scheduled"},
     licenseRef : {"", LicenseName},
     license_found : BOOLEAN,
     spec_active : {"", "A", "B"},
     patch : {"ok", "422", "api_error"}]

\* the dict returned by activate_instance / deactivate_instance; a missing
\* 'license_name' key is Absent, the message is its fixed text
Result(success, message, license_name) ==
    [success |-> success, message |-> message, license_name |-> license_name]

\* k8s_client.py activate_instance
activate_instance(instance_name, c) ==
    IF ~c.connected THEN Result(FALSE, "Kubernetes not connected", Absent)
    ELSE IF c.instance = "missing" THEN Result(FALSE, "not found", Absent)
    ELSE IF c.licenseRef = "" THEN Result(FALSE, "has no licenseRef", Absent)
    ELSE IF ~c.license_found THEN Result(FALSE, "License not found", Absent)
    ELSE IF c.spec_active = instance_name
         THEN Result(TRUE, "is already active", c.licenseRef)
    ELSE IF c.patch = "ok" THEN Result(TRUE, "Activated", c.licenseRef)
    ELSE IF c.patch = "422" THEN Result(FALSE, "Switch blocked", c.licenseRef)
    ELSE Result(FALSE, "Failed to patch license", c.licenseRef)

\* k8s_client.py deactivate_instance
deactivate_instance(instance_name, c) ==
    IF ~c.connected THEN Result(FALSE, "Kubernetes not connected", Absent)
    ELSE IF c.instance = "missing" THEN Result(FALSE, "not found", Absent)
    ELSE IF c.licenseRef = "" THEN Result(FALSE, "has no licenseRef", Absent)
    ELSE IF ~c.license_found THEN Result(FALSE, "License not found", Absent)
    ELSE IF c.spec_active # instance_name
         THEN Result(TRUE, "is not currently active", c.licenseRef)
    ELSE IF c.patch = "ok" THEN Result(TRUE, "Deactivated", c.licenseRef)
    ELSE IF c.patch = "422" THEN Result(FALSE, "Validation error", c.licenseRef)
    ELSE Result(FALSE, "Failed to patch license", c.licenseRef)

\* update.py lines 65-77: the Instance was fetched and carries the annotation
ActivationBlocked(c) == c.connected /\ c.instance = "scheduled"

\* a timed-out wait is reported as a failure
ActivateWaitOutcome_TimeoutFails(final_lic, inst_data) ==
    IF Truthy(final_lic)
    THEN IF inst_data THEN "Instance Live" ELSE "Switch complete"
    ELSE "Activation Failed"

\* update.py lines 109-131: the message after the wait of _handle_activate
ActivateWaitOutcome(final_lic, inst_data) ==
    IF Truthy(final_lic)
    THEN IF inst_data THEN "Instance Live" ELSE "Switch complete"
    ELSE "Switch Taking Longer Than Expected"

\* update.py lines 172-189: the message after the wait of _handle_deactivate
DeactivateWaitOutcome(final_lic) ==
    IF Truthy(final_lic)
    THEN "Instance Standby"
    ELSE "Deactivation Taking Longer Than Expected"

\* the call wait_for_resource_condition(get_fn, check_fn, 60, 5)
CallWait(fn) ==
    /\ check_fn' = fn
    /\ target' = upd_instance
    /\ timeout_seconds' = SwitchTimeout
    /\ interval_seconds' = SwitchInterval
    /\ on_progress' = FALSE
    /\ w_pc' = "start"
    /\ UNCHANGED <<now, start_time, polled, polls, poll_at, sleeps,
                   sleep_request, progress_calls, w_result>>

\* update.py lines 62-107 and 132-139: _handle_activate up to the wait
HandleActivate ==
    /\ upd_pc = "start"
    /\ upd_action = "activate"
    /\ \E c \in ClusterViews :
        IF ActivationBlocked(c)
        THEN /\ upd_outcome' = "Activation Blocked"
             /\ upd_pc' = "done"
             /\ UNCHANGED <<upd_result, waitVars>>
        ELSE LET result == activate_instance(upd_instance, c) IN
             /\ upd_result' = result
             /\ IF result.success
                THEN IF result.license_name = Absent
                     THEN /\ upd_outcome' = "plain success"
                          /\ upd_pc' = "done"
                          /\ UNCHANGED waitVars
                     ELSE /\ upd_outcome' = "Switching Active Instance..."
                          /\ upd_pc' = "waiting"
                          /\ CallWait("check_active")
                ELSE /\ upd_outcome' = "Activation Failed"
                     /\ upd_pc' = "done"
                     /\ UNCHANGED waitVars
    /\ UNCHANGED <<upd_action, upd_instance, outsideBot>>

\* update.py lines 109-131: _handle_activate after the wait
FinishActivate ==
    /\ upd_pc = "waiting"
    /\ upd_action = "activate"
    /\ w_pc = "returned"
    /\ \E inst_data \in BOOLEAN :
        upd_outcome' = ActivateWaitOutcome(w_result, inst_data)
    /\ upd_pc' = "done"
    /\ UNCHANGED <<upd_action, upd_instance, upd_result, waitVars, outsideBot>>

\* update.py lines 141-170 and 190-198: _handle_deactivate up to the wait
HandleDeactivate ==
    /\ upd_pc = "start"
    /\ upd_action = "deactivate"
    /\ \E c \in ClusterViews :
        LET result == deactivate_instance(upd_instance, c) IN
        /\ upd_result' = result
        /\ IF result.success
           THEN IF result.license_name = Absent
                THEN /\ upd_outcome' = "plain success"
                     /\ upd_pc' = "done"
                     /\ UNCHANGED waitVars
                ELSE /\ upd_outcome' = "Deactivating Instance..."
                     /\ upd_pc' = "waiting"
                     /\ CallWait("check_inactive")
           ELSE /\ upd_outcome' = "Deactivation Failed"
                /\ upd_pc' = "done"
                /\ UNCHANGED waitVars
    /\ UNCHANGED <<upd_action, upd_instance, outsideBot>>

\* update.py lines 172-189: _handle_deactivate after the wait
FinishDeactivate ==
    /\ upd_pc = "waiting"
    /\ upd_action = "deactivate"
    /\ w_pc = "returned"
    /\ upd_outcome' = DeactivateWaitOutcome(w_result)
    /\ upd_pc' = "done"
    /\ UNCHANGED <<upd_action, upd_instance, upd_result, waitVars, outsideBot>>

\* /vtt-update <instance> activate|deactivate
InitUpdate ==
    /\ upd_pc = "start"
    /\ upd_action \in {"activate", "deactivate"}
    /\ upd_instance = "A"
    /\ upd_result = NoResult
    /\ upd_outcome = ""
    /\ WaitIdle
    /\ LicenseIdle
    /\ InstanceIdle
    /\ PasswordIdle
    /\ ClientIdle

NextUpdate ==
    \/ HandleActivate
    \/ HandleDeactivate
    \/ FinishActivate
    \/ FinishDeactivate
    \/ WaitStart
    \/ WaitPoll
    \/ WaitWake
    \/ WaitTimeout

SpecUpdate == InitUpdate /\ [][NextUpdate]_vars

FailedTitles == {"Activation Failed", "Deactivation Failed"}
TakingLongerTitles ==
    {"Switch Taking Longer Than Expected",
     "Deactivation Taking Longer Than Expected"}
UpdateDone == upd_pc = "done"
\* the handler waited and the wait ran out of time
WaitTimedOut == w_pc = "returned" /\ w_result = NoneResource

\* C16: a handler that ends after a wait that timed out ends with its 'taking
\* longer than expected' message; a handler ends with 'Failed' only when
\* activate_instance / deactivate_instance returned success False (and then
\* no wait was made); 'Instance Live' is shown only when the wait returned a
\* polled License whose status.activeInstance is the requested instance.
C16_TimeoutIsNotFailure ==
    /\ UpdateDone /\ WaitTimedOut =>
           /\ upd_result.success
           /\ upd_outcome \in TakingLongerTitles
           /\ upd_outcome = IF upd_action = "activate"
                            THEN "Switch Taking Longer Than Expected"
                            ELSE "Deactivation Taking Longer Than Expected"
    /\ upd_outcome \in FailedTitles =>
           /\ upd_result # NoResult
           /\ ~upd_result.success
           /\ w_pc = "idle"
    /\ upd_outcome \in TakingLongerTitles => WaitTimedOut
    /\ upd_outcome = "Instance Live" =>
           /\ upd_action = "activate"
           /\ polls >= 1
           /\ w_result = polled
           /\ polled.kind = "license"
           /\ polled.activeInstance = upd_instance

\* C16 happens: the patch was accepted, the wait polled until the timeout, and
\* the handler ended
C16_Witness ==
    /\ UpdateDone
    /\ upd_result.message = "Activated"
    /\ WaitTimedOut
    /\ polls >= 10
    /\ upd_outcome = "Switch Taking Longer Than Expected"

----------------------------------------------------------------------------
(* promises/foundry-instance/configure-pipeline/scripts:                    *)
(*   generate_manifests.py (the secret logic) and main.py                   *)
(*                                                                          *)
(* Two FoundryInstance passes that resolve the same secret name run         *)
(* concurrently against one secret store; each call to the Kubernetes API   *)
(* is one step.                                                             *)

Passes == {1, 2}
MaxResets == 2

\* what the store holds under the secret name: no Secret (Absent), a Secret
\* without an adminPassword value (""), or a Secret with a value
OldPassword == "old-password"

\* generate_random_password(): 24 random characters, a value of its own for
\* each call
Generated(p) == IF p = 1 THEN "generated-1" ELSE "generated-2"

InitialStores == {Absent, "", OldPassword}

\* HTTP statuses of the API calls, by what the store holds
ReadStatuses(stored) == IF stored = Absent THEN {404, 500} ELSE {200, 500}
CreateStatuses(stored) == IF stored = Absent THEN {201, 500} ELSE {409, 500}
PatchStatuses(stored) == IF stored = Absent THEN {404} ELSE {200, 500}

\* generate_manifests.py lines 11-25: any exception gives None (""), and so
\* does a Secret without the key
get_existing_password(stored, status) ==
    IF status = 200 /\ stored # Absent THEN stored ELSE ""

\* generate_manifests.py lines 64 and 81: existing_pw and not regenerate
Reuses(existing, regen) == existing # "" /\ ~regen

\* a stored value is never patched
Patches_Never(existing, regen) == FALSE

\* generate_manifests.py line 84: existing_pw and regenerate
Patches(existing, regen) == existing # "" /\ regen

\* a create conflict is raised like any other error
CreateEscalates_ConflictToo(status) == status # 201

\* generate_manifests.py lines 103-111: which create answers are re-raised
CreateEscalates(status) == status \notin {201, 409}

\* generate_manifests.py line 90: patch_namespaced_secret is not guarded
PatchEscalates(status) == status # 200

\* one call of the API that writes the secret
ApiWrite(op, status, value) == [op |-> op, status |-> status, value |-> value]

\* the keys of the dict check_players returns (foundry_api.py lines 26-37)
StatsKeys(probed) ==
    {"connectedPlayers", "checkedAt"}
        \cup (IF probed THEN {"worldActive"} ELSE {"error"})

\* main.py lines 36-40 with check_license.py: the pass reads its resource,
\* then check_license writes {"isActive": is_active} to status.yaml
CheckLicense(p) ==
    /\ sec_pc[p] = "license"
    /\ regenerate' = [regenerate EXCEPT ![p] = spec_regenerate]
    /\ inst_status_file' = [inst_status_file EXCEPT ![p] = {"isActive"}]
    /\ sec_pc' = [sec_pc EXCEPT ![p] = "read"]
    /\ UNCHANGED <<secret_store, is_active, store_at_read, existing_pw,
                   admin_password, status_updates, api_writes, sec_exit,
                   inst_admin_key, spec_regenerate, reset_requests,
                   outsideInstance>>

\* password.py reset_instance lines 134-148 (and reset_default lines 80-94):
\* the merge patch that sets spec.regeneratePassword; a rejected patch is
\* reported and changes nothing
ResetInstance ==
    /\ reset_requests < MaxResets
    /\ reset_requests' = reset_requests + 1
    /\ \E ok \in BOOLEAN :
           spec_regenerate' = IF ok THEN TRUE ELSE spec_regenerate
    /\ UNCHANGED <<sec_pc, secret_store, regenerate, is_active, store_at_read,
                   existing_pw, admin_password, status_updates, api_writes,
                   sec_exit, inst_admin_key, inst_status_file, outsideInstance>>

\* generate_manifests.py lines 61-70: read, then reuse or generate
ReadExisting(p) ==
    /\ sec_pc[p] = "read"
    /\ \E status \in ReadStatuses(secret_store) :
        LET existing == get_existing_password(secret_store, status) IN
        /\ existing_pw' = [existing_pw EXCEPT ![p] = existing]
        /\ store_at_read' = [store_at_read EXCEPT ![p] = secret_store]
        /\ IF Reuses(existing, regenerate[p])
           THEN /\ admin_password' = [admin_password EXCEPT ![p] = existing]
                /\ UNCHANGED status_updates
           ELSE /\ admin_password' = [admin_password EXCEPT ![p] = Generated(p)]
                /\ status_updates' =
                       [status_updates EXCEPT
                           ![p] = @ \cup {"passwordPendingNotification"}]
    /\ sec_pc' = [sec_pc EXCEPT ![p] = "write"]
    /\ UNCHANGED <<secret_store, regenerate, is_active, api_writes, sec_exit,
                   inst_admin_key, inst_status_file, spec_regenerate,
                   reset_requests, outsideInstance>>

\* generate_manifests.py lines 81-111: skip, patch or create; an escalated
\* error leaves through main.py lines 79-83
WriteSecret(p) ==
    /\ sec_pc[p] = "write"
    /\ IF Reuses(existing_pw[p], regenerate[p])
       THEN /\ sec_pc' = [sec_pc EXCEPT ![p] = "main"]
            /\ UNCHANGED <<secret_store, api_writes, sec_exit>>
       ELSE IF Patches(existing_pw[p], regenerate[p])
       THEN \E status \in PatchStatuses(secret_store) :
            /\ api_writes' =
                   [api_writes EXCEPT
                       ![p] = Append(@, ApiWrite("patch", status, admin_password[p]))]
            /\ secret_store' = IF status = 200 THEN admin_password[p]
                                               ELSE secret_store
            /\ IF PatchEscalates(status)
               THEN /\ sec_pc' = [sec_pc EXCEPT ![p] = "exited"]
                    /\ sec_exit' = [sec_exit EXCEPT ![p] = 1]
               ELSE /\ sec_pc' = [sec_pc EXCEPT ![p] = "main"]
                    /\ UNCHANGED sec_exit
       ELSE \E status \in CreateStatuses(secret_store) :
            /\ api_writes' =
                   [api_writes EXCEPT
                       ![p] = Append(@, ApiWrite("create", status, admin_password[p]))]
            /\ secret_store' = IF status = 201 THEN admin_password[p]
                                               ELSE secret_store
            /\ IF CreateEscalates(status)
               THEN /\ sec_pc' = [sec_pc EXCEPT ![p] = "exited"]
                    /\ sec_exit' = [sec_exit EXCEPT ![p] = 1]
               ELSE /\ sec_pc' = [sec_pc EXCEPT ![p] = "main"]
                    /\ UNCHANGED sec_exit
    /\ UNCHANGED <<regenerate, is_active, store_at_read, existing_pw,
                   admin_password, status_updates, inst_admin_key,
                   inst_status_file, spec_regenerate,
                   reset_requests, outsideInstance>>

\* main.py lines 47-77: generate_manifests has returned and its return value
\* is dropped; an active instance reads the admin key back from the secret
\* (None, "", on any exception) and probes with it; write_status replaces
\* status.yaml with main's own status_updates
MainAfterManifests(p) ==
    /\ sec_pc[p] = "main"
    /\ IF is_active[p]
       THEN \E status \in ReadStatuses(secret_store), probed \in BOOLEAN :
            LET key == get_existing_password(secret_store, status) IN
            /\ inst_admin_key' = [inst_admin_key EXCEPT ![p] = key]
            /\ inst_status_file' =
                   [inst_status_file EXCEPT
                       ![p] = IF key # "" THEN StatsKeys(probed) ELSE {}]
       ELSE /\ UNCHANGED inst_admin_key
            /\ inst_status_file' = [inst_status_file EXCEPT ![p] = {}]
    /\ sec_pc' = [sec_pc EXCEPT ![p] = "done"]
    /\ sec_exit' = [sec_exit EXCEPT ![p] = 0]
    /\ UNCHANGED <<secret_store, regenerate, is_active, store_at_read,
                   existing_pw, admin_password, status_updates, api_writes,
                   spec_regenerate, reset_requests,
                   outsideInstance>>

InitSecret ==
    /\ sec_pc = [p \in Passes |-> "license"]
    /\ secret_store \in InitialStores
    /\ regenerate = [p \in Passes |-> FALSE]
    /\ inst_status_file = [p \in Passes |-> {}]
    /\ spec_regenerate \in BOOLEAN
    /\ reset_requests = 0
    /\ is_active \in [Passes -> BOOLEAN]
    /\ store_at_read = [p \in Passes |-> Absent]
    /\ existing_pw = [p \in Passes |-> ""]
    /\ admin_password = [p \in Passes |-> ""]
    /\ status_updates = [p \in Passes |-> {}]
    /\ api_writes = [p \in Passes |-> <<>>]
    /\ sec_exit = [p \in Passes |-> -1]
    /\ inst_admin_key = [p \in Passes |-> ""]
    /\ PasswordIdle
    /\ ClientIdle
    /\ WaitIdle
    /\ UpdateIdle
    /\ LicenseIdle

NextSecret ==
    \/ ResetInstance
    \/ \E p \in Passes :
        \/ CheckLicense(p)
        \/ ReadExisting(p)
        \/ WriteSecret(p)
        \/ MainAfterManifests(p)

SpecSecret == InitSecret /\ [][NextSecret]_vars

\* pass p is past the secret logic and has not failed
PastSecretLogic(p) == sec_pc[p] \in {"main", "done"}
\* the store held a value when pass p read it
ValueExistedFor(p) == store_at_read[p] \notin {Absent, ""}
RaisedPending(p) == "passwordPendingNotification" \in status_updates[p]
CreatesOf(p) == SelectSeq(api_writes[p], LAMBDA w : w.op = "create")
PatchesOf(p) == SelectSeq(api_writes[p], LAMBDA w : w.op = "patch")

\* C17: a pass that found a stored value under the secret name and was not
\* asked to regenerate has issued no create and no patch (so it has not
\* changed the stored value) and has not raised passwordPendingNotification.
C17_SecretReuse ==
    \A p \in Passes :
        PastSecretLogic(p) /\ ValueExistedFor(p) /\ ~regenerate[p] =>
            /\ api_writes[p] = <<>>
            /\ ~RaisedPending(p)
            /\ admin_password[p] = store_at_read[p]

\* C18: a pass that found a stored value and was asked to regenerate has
\* patched the store with a freshly generated value (one accepted patch, no
\* create) and reports passwordPendingNotification; a pass that found no
\* Secret has generated a fresh value and attempted one create, whatever
\* regeneratePassword says.
C18_SecretRegenerate ==
    \A p \in Passes :
        /\ PastSecretLogic(p) /\ ValueExistedFor(p) /\ regenerate[p] =>
               /\ api_writes[p] = <<ApiWrite("patch", 200, Generated(p))>>
               /\ RaisedPending(p)
        /\ PastSecretLogic(p) /\ store_at_read[p] = Absent =>
               /\ admin_password[p] = Generated(p)
               /\ Len(CreatesOf(p)) = 1
               /\ PatchesOf(p) = <<>>

\* both passes read the name while no Secret existed and both called create
BothCreated ==
    \A p \in Passes :
        /\ sec_pc[p] \in {"main", "done", "exited"}
        /\ store_at_read[p] = Absent
        /\ Len(CreatesOf(p)) = 1

CreateStatusOf(p) == CreatesOf(p)[1].status

\* C19: when both passes resolved the name while it did not exist and both
\* called create, at most one create was accepted; an answered conflict ends
\* no pass (it goes on and exits 0) and any other create error ends the pass
\* with exit code 1; if neither create met such an error, exactly one was
\* accepted, the store holds the value generated by that pass, and every
\* admin key a pass read back afterwards is that value.
C19_SecretRace ==
    BothCreated =>
        /\ Cardinality({p \in Passes : CreateStatusOf(p) = 201}) <= 1
        /\ \A p \in Passes :
               /\ CreateStatusOf(p) = 409 => sec_pc[p] # "exited" /\ sec_exit[p] # 1
               /\ CreateStatusOf(p) \notin {201, 409} =>
                      sec_pc[p] = "exited" /\ sec_exit[p] = 1
               /\ CreateStatusOf(p) = 201 => secret_store = Generated(p)
               /\ inst_admin_key[p] # "" => inst_admin_key[p] = secret_store
        /\ (\A p \in Passes : CreateStatusOf(p) \in {201, 409}) =>
               /\ Cardinality({p \in Passes : CreateStatusOf(p) = 201}) = 1
               /\ secret_store \in {Generated(p) : p \in Passes}

\* C19 happens: both passes created, one was answered with a conflict, both
\* ended with exit code 0 and both read the same admin key back
C19_Witness ==
    /\ BothCreated
    /\ \E p \in Passes : CreateStatusOf(p) = 409
    /\ \A p \in Passes : sec_pc[p] = "done" /\ sec_exit[p] = 0
    /\ \A p \in Passes : inst_admin_key[p] = secret_store
    /\ secret_store # Absent

----------------------------------------------------------------------------
(* The pending-notification flag:                                           *)
(*   promises/foundry-password/configure-pipeline/scripts/main.py           *)
(*   discord-bot/cogs/create.py (vtt_create, the password DM)               *)
(*   discord-bot/tasks.py (check_password_notifications)                    *)
(*                                                                          *)
(* One FoundryPassword record is reconciled by up to MaxPasses pipeline     *)
(* passes, one at a time, while one /vtt-create handler and the periodic    *)
(* notifier run beside them.  A timestamp is the number of the pass that    *)
(* wrote it; 0 and Absent stand for a missing key.                          *)

\* number of FoundryPassword pipeline passes in a behaviour
MaxPasses == 3
MaxHandlers == 2

\* the status of a FoundryPassword that no pass has written yet
NoPasswordStatus ==
    [phase |-> Absent, createdAt |-> 0, lastRefreshed |-> 0,
     passwordPendingNotification |-> Absent]

\* get_foundry_password returned None, or the wait timed out
NoPasswordSeen == [none |-> TRUE]

\* password main.py lines 109-127: the status written by a pass that read
\* the status `existing` and runs at time t
PasswordStatus(existing, t) ==
    IF existing.createdAt = 0
    THEN [phase |-> "Ready", createdAt |-> t, lastRefreshed |-> t,
          passwordPendingNotification |-> TRUE]
    ELSE [phase |-> "Ready", createdAt |-> existing.createdAt,
          lastRefreshed |-> t, passwordPendingNotification |-> FALSE]

\* tasks.py lines 5-13: the module never binds the name discord, so the
\* discord.Embed of line 151 raises NameError
TasksBindsDiscord == FALSE

\* password main.py lines 76-79: the pass reads the resource
PasswordPassStart ==
    /\ pwd_pc = "idle"
    /\ pwd_passes < MaxPasses
    /\ pwd_passes' = pwd_passes + 1
    /\ existing_status' = pwd_status
    /\ pwd_pc' = "running"
    /\ UNCHANGED <<pwd_status, cr_pc, ready_password_res, password_status_msg,
                   secret_synced, dms, inst_pending, task_error, cr_handlers,
                   outsidePassword>>

\* password main.py lines 109-129: the pass writes the status
PasswordPassWrite ==
    /\ pwd_pc = "running"
    /\ pwd_status' = PasswordStatus(existing_status, pwd_passes)
    /\ pwd_pc' = "idle"
    /\ UNCHANGED <<pwd_passes, existing_status, cr_pc, ready_password_res,
                   password_status_msg, secret_synced, dms, inst_pending, task_error,
                   cr_handlers,
                   outsidePassword>>

\* password main.py lines 104-106: the pass has written the ExternalSecret;
\* the secret operator creates the secret some time later
SecretSyncs ==
    /\ pwd_status.phase = "Ready"
    /\ ~secret_synced
    /\ secret_synced' = TRUE
    /\ UNCHANGED <<pwd_pc, pwd_passes, existing_status, pwd_status, cr_pc,
                   ready_password_res, password_status_msg, dms, inst_pending,
                   task_error, cr_handlers,
                   outsidePassword>>

\* create.py lines 171-190: wait for phase Ready, then look at the flag of
\* the resource the wait returned
CreateWaitsForPassword ==
    /\ cr_pc = "wait"
    /\ \E seen \in {NoPasswordSeen}
                     \cup (IF pwd_status.phase = "Ready" THEN {pwd_status} ELSE {}) :
        /\ ready_password_res' = seen
        /\ cr_pc' = IF seen # NoPasswordSeen
                        /\ seen.passwordPendingNotification = TRUE
                    THEN "notify"
                    ELSE "done"
    /\ UNCHANGED <<pwd_pc, pwd_passes, existing_status, pwd_status,
                   password_status_msg, secret_synced, dms, inst_pending, task_error,
                   cr_handlers,
                   outsidePassword>>

\* create.py lines 191-241 up to the send: read the secret (found when it
\* is synced), send the DM
CreateSendsDM ==
    /\ cr_pc = "notify"
    /\ \E sent \in {"ok", "forbidden", "error"} :
        IF secret_synced /\ sent = "ok"
        THEN /\ dms' = Append(dms, [by |-> "vtt_create",
                                    createdAt |-> ready_password_res.createdAt])
             /\ password_status_msg' = "Password sent via DM!"
             /\ cr_pc' = "clear"
        ELSE /\ password_status_msg' =
                    IF ~secret_synced THEN "Password still generating"
                    ELSE IF sent = "forbidden" THEN "Could not DM password"
                    ELSE "Error sending password DM"
             /\ cr_pc' = "done"
             /\ UNCHANGED dms
    /\ UNCHANGED <<pwd_pc, pwd_passes, existing_status, pwd_status,
                   ready_password_res, secret_synced, inst_pending, task_error,
                   cr_handlers,
                   outsidePassword>>

\* create.py lines 229-233 with k8s_client.py patch_foundry_password_status:
\* the flag is patched to False; a rejected patch is not reported
CreateClearsFlag ==
    /\ cr_pc = "clear"
    /\ \E patched \in BOOLEAN :
        pwd_status' = IF patched
                      THEN [pwd_status EXCEPT !.passwordPendingNotification = FALSE]
                      ELSE pwd_status
    /\ cr_pc' = "done"
    /\ UNCHANGED <<pwd_pc, pwd_passes, existing_status, ready_password_res,
                   password_status_msg, secret_synced, dms, inst_pending, task_error,
                   cr_handlers,
                   outsidePassword>>

\* tasks.py lines 87-222: one run of the notifier over an Instance whose
\* status carries the flag, with a creator id and a readable password
TaskNotifies ==
    /\ inst_pending = TRUE
    /\ IF TasksBindsDiscord
       THEN /\ dms' = Append(dms, [by |-> "task", createdAt |-> 0])
            /\ \E patched \in BOOLEAN :
                inst_pending' = IF patched THEN Absent ELSE inst_pending
            /\ UNCHANGED task_error
       ELSE /\ task_error' = "NameError"
            /\ UNCHANGED <<dms, inst_pending>>
    /\ UNCHANGED <<pwd_pc, pwd_passes, existing_status, pwd_status, cr_pc,
                   ready_password_res, password_status_msg, secret_synced,
                   cr_handlers,
                   outsidePassword>>

\* create.py lines 116-170: a later /vtt-create of the same user with the
\* default password finds the FoundryPassword, creates its Instance and
\* starts waiting on the same resource
CreateHandlerStarts ==
    /\ cr_pc = "done"
    /\ cr_handlers < MaxHandlers
    /\ cr_handlers' = cr_handlers + 1
    /\ cr_pc' = "wait"
    /\ ready_password_res' = NoPasswordSeen
    /\ password_status_msg' = ""
    /\ UNCHANGED <<pwd_pc, pwd_passes, existing_status, pwd_status,
                   secret_synced, dms, inst_pending, task_error,
                   outsidePassword>>

InitPassword ==
    /\ pwd_pc = "idle"
    /\ pwd_passes = 0
    /\ existing_status = NoPasswordStatus
    /\ pwd_status = NoPasswordStatus
    /\ cr_pc = "wait"
    /\ ready_password_res = NoPasswordSeen
    /\ password_status_msg = ""
    /\ secret_synced = FALSE
    /\ dms = <<>>
    /\ inst_pending = TRUE
    /\ task_error = ""
    /\ cr_handlers = 1
    /\ WaitIdle
    /\ UpdateIdle
    /\ InstanceIdle
    /\ ClientIdle
    /\ LicenseIdle

NextPassword ==
    \/ PasswordPassStart
    \/ PasswordPassWrite
    \/ SecretSyncs
    \/ CreateWaitsForPassword
    \/ CreateSendsDM
    \/ CreateClearsFlag
    \/ TaskNotifies
    \/ CreateHandlerStarts

SpecPassword == InitPassword /\ [][NextPassword]_vars

\* the flag of the FoundryPassword has been raised at some time
FlagWasRaised == pwd_status.createdAt # 0
\* C20: a flag that was raised and is no longer true was cleared after a
\* delivery: whenever the FoundryPassword's flag has been raised and is not
\* true now, a password DM has been sent by the /vtt-create handler, and
\* whenever the Instance flag read by the periodic notifier is no longer
\* true, a password DM has been sent by the notifier.
C20_ClearedOnlyAfterDelivery ==
    /\ FlagWasRaised /\ pwd_status.passwordPendingNotification # TRUE =>
           \E i \in DOMAIN dms : dms[i].by = "vtt_create"
    /\ inst_pending # TRUE => \E i \in DOMAIN dms : dms[i].by = "task"

----------------------------------------------------------------------------
(* C22 *)

\* the pass returned, under switchMode=block, a non-empty holder other than
\* the current one
C22_Pre ==
    /\ Returned
    /\ resource.switchMode = "block"
    /\ return_status.activeInstance # ""
    /\ return_status.activeInstance # Current

\* generate_routes probed the current holder once and was told 0 players,
\* without error
ProbedCurrentEmpty ==
    /\ GenProbeCalls = <<[site |-> "generate_routes", host |-> ServiceHost(Current)]>>
    /\ stats.error = ""
    /\ stats.connectedPlayers = 0

\* C22 as stated: under block, a returned holder that is non-empty and is not
\* the current holder was allowed by a probe of the current holder that
\* reported 0 without error, an empty current holder included.
C22_OnlyAfterEmptyProbe_AsStated == C22_Pre => ProbedCurrentEmpty

\* C22, amended: under block, a returned holder that is non-empty and is not
\* the current holder is the desired holder, and either there was no current
\* holder (nothing is probed, the desired holder is activated directly) or the
\* current holder was probed once and reported 0 without error; with a current
\* holder and no admin key the returned holder is never a new one.
C22_OnlyAfterEmptyProbe ==
    C22_Pre =>
        /\ return_status.activeInstance = Desired
        /\ IF Current = ""
           THEN GenProbeCalls = <<>>
           ELSE ProbedCurrentEmpty /\ admin_key # ""

\* C22 happens: a pass that ended with a switch away from the current holder
\* after a probe that reported 0, with two Instances listed
C22_Witness ==
    /\ C22_Pre
    /\ Current # ""
    /\ ProbedCurrentEmpty
    /\ Len(items) = 2
    /\ pc = "done"

----------------------------------------------------------------------------
(* C24 *)

\* the switch logic met a probe failure or denied the switch
ProbeFailedOrDenied == stats.error # "" \/ warning # NoWarning

\* C24: a pass whose listing of the Instances failed has exited with status 1
\* and has written no status, returned no status, written no route and
\* obtained no listing from a second attempt; a pass exits with status 1 only
\* because of the listing or of the License validation, never because of a
\* probe failure or a denial, after which the pass fails only if the listing
\* fails.
C24_ListFailureIsFatal ==
    /\ failure = "list" =>
           /\ pc = "exited"
           /\ exit_code = 1
           /\ status_file = NotSet
           /\ return_status = NotSet
           /\ outputs = <<>>
           /\ items = <<>>
    /\ exit_code = 1 => failure \in {"validation", "list"}
    /\ pc = "exited" /\ ProbeFailedOrDenied => failure = "list"
    /\ pc = "done" => exit_code = 0 /\ failure = ""

\* C24 happens: the probe failed, the switch was denied, then the listing
\* failed
C24_Witness ==
    /\ failure = "list"
    /\ stats.error # ""
    /\ warning # NoWarning
    /\ Len(GenProbeCalls) = 1

----------------------------------------------------------------------------
(* The bot's cluster client, its License cache and the instance delete
   pipeline, all acting on one License of the store.  The bot runs one
   command at a time; each read and each patch is one store operation, and
   the delete pipeline and the clock move between them. *)

MaxClock == 6

\* config.py line 28
CACHE_TTL_SECONDS == 5

\* get_foundry_license returned None
NoLicense == "<no license>"

NoCacheEntry == [present |-> FALSE, data |-> "", timestamp |-> 0]
NoCallResult == Result(FALSE, "", Absent)
NoPatch == [by |-> "", behalf |-> "", value |-> "", replaced |-> ""]

\* the fresh read does not store what it read
LicenseRead_FreshNotStored(use_cache, ok) ==
    IF use_cache /\ lic_cache.present
       /\ cl_clock - lic_cache.timestamp < CACHE_TTL_SECONDS
    THEN [value |-> lic_cache.data, cache |-> lic_cache]
    ELSE IF ok
    THEN [value |-> st_holder,
          cache |-> IF use_cache
                    THEN [present |-> TRUE, data |-> st_holder,
                          timestamp |-> cl_clock]
                    ELSE lic_cache]
    ELSE [value |-> NoLicense, cache |-> lic_cache]

\* k8s_client.py get_foundry_license with cache.py TTLCache.get / set: the
\* activeInstanceName of the License it returns and the cache it leaves; ok
\* is whether the store answered the read
LicenseRead(use_cache, ok) ==
    IF use_cache /\ lic_cache.present
       /\ cl_clock - lic_cache.timestamp < CACHE_TTL_SECONDS
    THEN [value |-> lic_cache.data, cache |-> lic_cache]
    ELSE IF ok
    THEN [value |-> st_holder,
          cache |-> [present |-> TRUE, data |-> st_holder,
                     timestamp |-> cl_clock]]
    ELSE [value |-> NoLicense, cache |-> lic_cache]

\* what activate_instance / deactivate_instance see once the Instance and the
\* License were fetched
CallView(license, patch) ==
    [connected |-> TRUE, instance |-> "found", licenseRef |-> LicenseName,
     license_found |-> license # NoLicense, spec_active |-> license,
     patch |-> patch]

\* time passes
Tick ==
    /\ cl_clock < MaxClock
    /\ bot_pc # "off"
    /\ UNCHANGED outsideClient
    /\ cl_clock' = cl_clock + 1
    /\ UNCHANGED <<st_holder, st_scheduled, lic_cache, bot_pc, bot_cmd, bot_fn,
                   bot_instance, bot_license, fresh_license, holder_at_call,
                   bot_result, annotate_result, last_patch, del_pc,
                   del_instance, del_read>>

\* update.py _handle_activate / _handle_deactivate enter activate_instance /
\* deactivate_instance, which fetches the Instance (lines 672-674, 733-735);
\* an Instance the delete pipeline has finished with is gone
BotStartUpdate(fn, inst) ==
    /\ bot_pc = "idle"
    /\ ~(del_pc = "done" /\ del_instance = inst)
    /\ UNCHANGED outsideClient
    /\ bot_pc' = "read"
    /\ bot_cmd' = "vtt_update"
    /\ bot_fn' = fn
    /\ bot_instance' = inst
    /\ bot_license' = ""
    /\ fresh_license' = ""
    /\ holder_at_call' = ""
    /\ bot_result' = NoCallResult
    /\ annotate_result' = ""
    /\ UNCHANGED <<st_holder, st_scheduled, lic_cache, cl_clock, last_patch,
                   del_pc, del_instance, del_read>>

\* k8s_client.py lines 680 and 741: license_obj = get_foundry_license(...)
BotRead ==
    /\ bot_pc = "read"
    /\ UNCHANGED outsideClient
    /\ \E ok \in BOOLEAN :
           LET r == LicenseRead(TRUE, ok)
           IN  /\ bot_license' = r.value
               /\ lic_cache' = r.cache
    /\ holder_at_call' = st_holder
    /\ bot_pc' = "decide"
    /\ UNCHANGED <<st_holder, st_scheduled, cl_clock, bot_cmd, bot_fn,
                   bot_instance, fresh_license, bot_result, annotate_result,
                   last_patch, del_pc, del_instance, del_read>>

\* k8s_client.py lines 681-719 and 742-785: the short-circuit or the patch;
\* in vtt_delete, delete.py lines 104-111 return on a failed deactivation
BotDecide ==
    /\ bot_pc = "decide"
    /\ UNCHANGED outsideClient
    /\ \E patch \in {"ok", "422", "api_error"} :
           LET c == CallView(bot_license, patch)
               res == IF bot_fn = "activate"
                      THEN activate_instance(bot_instance, c)
                      ELSE deactivate_instance(bot_instance, c)
               value == IF bot_fn = "activate" THEN bot_instance ELSE ""
               applied == res.message \in {"Activated", "Deactivated"}
           IN  /\ bot_result' = res
               /\ st_holder' = IF applied THEN value ELSE st_holder
               /\ last_patch' = IF applied
                                THEN [by |-> "bot", behalf |-> bot_instance,
                                      value |-> value, replaced |-> st_holder]
                                ELSE last_patch
               /\ bot_pc' = IF bot_cmd = "vtt_delete" /\ res.success
                            THEN "annotate" ELSE "idle"
    /\ UNCHANGED <<st_scheduled, lic_cache, cl_clock, bot_cmd, bot_fn,
                   bot_instance, bot_license, fresh_license, holder_at_call,
                   annotate_result, del_pc, del_instance, del_read>>

\* delete.py vtt_delete lines 24-103 for an Instance the caller owns and that
\* is not scheduled yet (otherwise lines 80-93 return): the uncached read of
\* the License and the choice to deactivate first
BotStartDelete(inst) ==
    /\ bot_pc = "idle"
    /\ ~(del_pc = "done" /\ del_instance = inst)
    /\ inst \notin st_scheduled
    /\ UNCHANGED outsideClient
    /\ \E ok \in BOOLEAN :
           LET r == LicenseRead(FALSE, ok)
           IN  /\ fresh_license' = r.value
               /\ lic_cache' = r.cache
               /\ bot_pc' = IF r.value = inst THEN "read" ELSE "annotate"
    /\ bot_cmd' = "vtt_delete"
    /\ bot_fn' = "deactivate"
    /\ bot_instance' = inst
    /\ bot_license' = ""
    /\ holder_at_call' = ""
    /\ bot_result' = NoCallResult
    /\ annotate_result' = ""
    /\ UNCHANGED <<st_holder, st_scheduled, cl_clock, last_patch, del_pc,
                   del_instance, del_read>>

\* delete.py lines 121-149: patch_instance_annotations and its outcome
BotAnnotate ==
    /\ bot_pc = "annotate"
    /\ UNCHANGED outsideClient
    /\ \E ok \in BOOLEAN :
           /\ annotate_result' = IF ok THEN "ok" ELSE "failed"
           /\ st_scheduled' = IF ok THEN st_scheduled \cup {bot_instance}
                              ELSE st_scheduled
    /\ bot_pc' = "idle"
    /\ UNCHANGED <<st_holder, lic_cache, cl_clock, bot_cmd, bot_fn,
                   bot_instance, bot_license, fresh_license, holder_at_call,
                   bot_result, last_patch, del_pc, del_instance, del_read>>

\* instance delete.py lines 33-43: the pipeline reads the License; a failed
\* read is caught at line 60
DelRead(inst) ==
    /\ del_pc = "idle"
    /\ UNCHANGED outsideClient
    /\ del_instance' = inst
    /\ \E ok \in BOOLEAN : del_read' = IF ok THEN st_holder ELSE NoLicense
    /\ del_pc' = "read"
    /\ UNCHANGED <<st_holder, st_scheduled, lic_cache, cl_clock, bot_pc,
                   bot_cmd, bot_fn, bot_instance, bot_license, fresh_license,
                   holder_at_call, bot_result, annotate_result, last_patch>>

\* instance delete.py lines 44-63: the merge patch that clears the holder
DelPatch ==
    /\ del_pc = "read"
    /\ UNCHANGED outsideClient
    /\ \E ok \in BOOLEAN :
           LET applied == del_read = del_instance /\ ok
           IN  /\ st_holder' = IF applied THEN "" ELSE st_holder
               /\ last_patch' = IF applied
                                THEN [by |-> "delete pipeline",
                                      behalf |-> del_instance, value |-> "",
                                      replaced |-> st_holder]
                                ELSE last_patch
    /\ del_pc' = "done"
    /\ UNCHANGED <<st_scheduled, lic_cache, cl_clock, bot_pc, bot_cmd, bot_fn,
                   bot_instance, bot_license, fresh_license, holder_at_call,
                   bot_result, annotate_result, del_instance, del_read>>

InitClient ==
    /\ st_holder \in {"", "A", "B"}
    /\ st_scheduled = {}
    /\ lic_cache = NoCacheEntry
    /\ cl_clock = 0
    /\ bot_pc = "idle"
    /\ bot_cmd = ""
    /\ bot_fn = ""
    /\ bot_instance = ""
    /\ bot_license = ""
    /\ fresh_license = ""
    /\ holder_at_call = ""
    /\ bot_result = NoCallResult
    /\ annotate_result = ""
    /\ last_patch = NoPatch
    /\ del_pc = "idle"
    /\ del_instance = ""
    /\ del_read = ""
    /\ LicenseIdle
    /\ WaitIdle
    /\ UpdateIdle
    /\ InstanceIdle
    /\ PasswordIdle

NextClient ==
    \/ Tick
    \/ \E fn \in {"activate", "deactivate"}, inst \in {"A", "B"} :
           BotStartUpdate(fn, inst)
    \/ BotRead
    \/ BotDecide
    \/ \E inst \in {"A", "B"} : BotStartDelete(inst)
    \/ BotAnnotate
    \/ \E inst \in {"A", "B"} : DelRead(inst)
    \/ DelPatch

SpecClient == InitClient /\ [][NextClient]_vars

----------------------------------------------------------------------------
(* C23 *)

\* activate_instance / deactivate_instance returned a short-circuit
ShortCircuit(fn, message) ==
    /\ bot_fn = fn
    /\ bot_result.message = message

\* C23: activate_instance returns 'already active' only if the stored holder
\* was the instance when the call read the License, and deactivate_instance
\* returns 'not currently active' only if the stored holder was not the
\* instance then.
C23_CacheNeverDecides ==
    /\ ShortCircuit("activate", "is already active")
           => holder_at_call = bot_instance
    /\ ShortCircuit("deactivate", "is not currently active")
           => holder_at_call # bot_instance


----------------------------------------------------------------------------
(* C27 *)

\* the last patch the store applied cleared the desired holder
ClearingApplied == last_patch.by # "" /\ last_patch.value = ""

\* C27: a clearing patch applied on behalf of an instance replaced either
\* that instance or no holder at all, never the activation of another
\* instance.
C27_ClearKeepsOthers ==
    ClearingApplied => last_patch.replaced \in {"", last_patch.behalf}

----------------------------------------------------------------------------
(* C28 *)

\* /vtt-delete found the instance to be the desired holder on its uncached read
DeleteOfHolder == bot_cmd = "vtt_delete" /\ fresh_license = bot_instance

\* deactivate_instance has returned in the command in progress
DeactivateReturned == bot_result # NoCallResult

\* C28: /vtt-delete calls patch_instance_annotations for an instance its
\* uncached read showed as the desired holder only after deactivate_instance
\* returned success, and that success is either the patch that cleared the
\* holder or a short-circuit taken while the stored holder was no longer the
\* instance; when the deactivation fails the command ends without calling
\* patch_instance_annotations and the instance carries no annotation.
C28_AnnotateAfterDeactivate ==
    /\ DeleteOfHolder /\ (annotate_result # "" \/ bot_pc = "annotate") =>
           /\ DeactivateReturned
           /\ bot_result.success
           /\ \/ bot_result.message = "Deactivated"
              \/ /\ bot_result.message = "is not currently active"
                 /\ holder_at_call # bot_instance
    /\ DeleteOfHolder /\ DeactivateReturned /\ ~bot_result.success =>
           /\ bot_pc = "idle"
           /\ annotate_result = ""
           /\ bot_instance \notin st_scheduled

\* C28 happens: the holder was deactivated by the command, then annotated
C28_Witness ==
    /\ DeleteOfHolder
    /\ bot_result.message = "Deactivated"
    /\ annotate_result = "ok"
    /\ bot_instance \in st_scheduled
    /\ st_holder = ""

\* C28 happens: the deactivation failed and the command ended
C28_FailureReached ==
    /\ DeleteOfHolder
    /\ DeactivateReturned
    /\ ~bot_result.success
    /\ bot_pc = "idle"


----------------------------------------------------------------------------
(* C21 *)

\* C21: no secret value is sent twice: any two password DMs carry different
\* values (the FoundryPassword's value is the one generated at its
\* createdAt), whichever handler or notifier run sent them and whether or
\* not the status patch after the first send was applied.
C21_AtMostOncePerValue ==
    \A i, j \in DOMAIN dms :
        i # j => dms[i].createdAt # dms[j].createdAt


----------------------------------------------------------------------------
(* C26, C29, C30 *)

\* the pass ended successfully
PassSucceeded(p) == sec_pc[p] = "done" /\ sec_exit[p] = 0

\* generate_manifests generated a new value in the pass
GeneratedNew(p) == "passwordPendingNotification" \in status_updates[p]

\* C26: the status written by a pass in which generate_manifests generated a
\* new secret value carries passwordPendingNotification.
C26_StatusCarriesFlag ==
    \A p \in Passes :
        PassSucceeded(p) /\ GeneratedNew(p) =>
            "passwordPendingNotification" \in inst_status_file[p]

\* C29: at the end of a successful pass the status file still has the
\* isActive field check_license wrote.
C29_IsActiveKept ==
    \A p \in Passes : PassSucceeded(p) => "isActive" \in inst_status_file[p]

\* the pass issued a patch of the secret with its own generated value
PatchedFresh(p) ==
    /\ Len(api_writes[p]) = 1
    /\ api_writes[p][1].op = "patch"
    /\ api_writes[p][1].value = Generated(p)

\* the store accepted the patch of the pass
PatchAccepted(p) == PatchedFresh(p) /\ api_writes[p][1].status = 200

\* C30: the regenerate intent stays set once a pass has read it as set, and
\* every pass that read it as set and found the secret has patched the secret
\* with a value generated by that pass, which leaves the pass only when the
\* store rejects the patch; no pass reuses the stored value then.
C30_IntentNeverConsumed ==
    \A p \in Passes :
        /\ regenerate[p] => spec_regenerate
        /\ /\ regenerate[p]
           /\ existing_pw[p] # ""
           /\ sec_pc[p] \in {"main", "done", "exited"}
           =>
               /\ PatchedFresh(p)
               /\ admin_password[p] = Generated(p)
               /\ sec_pc[p] = "exited" <=> ~PatchAccepted(p)

\* C30 happens: one reset request, then two passes each overwrote the secret
\* with a value of its own
C30_Witness ==
    /\ reset_requests = 1
    /\ \A p \in Passes : PassSucceeded(p) /\ regenerate[p] /\ PatchAccepted(p)
    /\ api_writes[1][1].value # api_writes[2][1].value
    /\ secret_store \in {Generated(1), Generated(2)}


----------------------------------------------------------------------------
(* Repeated License passes: every finished pass is followed by another one
   that reads the status the previous pass wrote, while the License names a
   desired holder that stays bound and is not pending deletion. *)

\* the desired holder is listed as an Instance of the License and carries no
\* scheduled-delete-at annotation
HolderListed == IsBound(Desired) /\ ~PendingDeletion(Desired)

\* generate_route.py lines 73-78 when the store answers and the desired
\* holder is among the Instances
ListInstancesHolding == ListInstances /\ HolderListed'

\* the next trigger of the pipeline (check_license.py lines 50-67 label the
\* License for reconciliation): the pass reads the License with the status
\* written by main.py line 42
RetriggerPass ==
    /\ pc = "done"
    /\ UNCHANGED outsideLicense
    /\ resource' =
           [resource EXCEPT !.activeInstance = status_file.status.activeInstance]
    /\ pc' = "validate"
    /\ active_instance_name' = ""
    /\ warning' = NoWarning
    /\ stats' = NoStats
    /\ arbitrated' = ""
    /\ items' = <<>>
    /\ idx' = 1
    /\ registered_instances' = <<>>
    /\ outputs' = <<>>
    /\ probe_calls' = <<>>
    /\ return_status' = NotSet
    /\ status_file' = NotSet
    /\ exit_code' = -1
    /\ failure' = ""
    /\ UNCHANGED admin_key

InitConverge ==
    /\ Init
    /\ Desired # ""
    /\ resource.secretRefOK

NextConverge ==
    \/ ValidateLicense
    \/ ArbitrateWithProbe
    \/ ArbitrateNoProbe
    \/ ListInstancesHolding
    \/ ProcessInstance
    \/ ReturnStatus
    \/ MainWriteStatus
    \/ RetriggerPass

SpecConverge == InitConverge /\ [][NextConverge]_vars /\ WF_vars(NextConverge)

----------------------------------------------------------------------------
(* C25 *)

\* the License a watcher fetches once the finished pass's status is stored
StoredLicense ==
    [kind |-> "license", activeInstance |-> status_file.status.activeInstance]

\* the finished pass made the desired holder the holder: status, routes, and
\* the watcher's check_active
Converged ==
    /\ pc = "done"
    /\ status_file.status.activeInstance = Desired
    /\ \A i \in DOMAIN outputs :
           IF outputs[i].content.instance = Desired
           THEN ActiveRoute(i) ELSE StandbyRoute(i)
    /\ RoutesOf(Desired) # {}
    /\ Satisfies("check_active", Desired, StoredLicense)

\* from here on every pass starts from the desired holder and ends converged
StaysConverged == Current = Desired /\ (pc = "done" => Converged)

\* C25: with the desired holder unchanged, bound and not pending deletion and
\* passes triggered again and again on the status of the previous pass, if
\* switchMode is force or the probe of the current holder at some pass
\* reports 0 players, then from some pass on the stored status names the
\* desired holder, its route is active, every other route is standby and
\* check_active holds of the stored License, and passes keep finishing so.
C25_Convergence ==
    (resource.switchMode = "force" \/ <>ProbedCurrentEmpty)
        => (<>[]StaysConverged /\ []<>Converged)

\* C25 happens: a pass started from another holder, probed it, found it
\* empty and finished with the desired holder active
C25_Witness ==
    /\ Converged
    /\ resource.switchMode = "block"
    /\ Current \notin {"", Desired}
    /\ ProbedCurrentEmpty
    /\ Len(outputs) = 2

====
